---------------------------- MODULE Spec2Model ----------------------------
(***************************************************************************)
(* A model of pandas-data-cleaner: the CleaningStrategy contract           *)
(* (data_cleaners/base.py), the built-in strategies                        *)
(* (data_cleaners/strategies.py), the strategies of the test suite         *)
(* (tests/utils/strategies.py) and the pipeline driver clean_data.         *)
(*                                                                         *)
(* A table (pandas DataFrame) is a record                                  *)
(*     [cols |-> sequence of column names,                                 *)
(*      rows |-> sequence of [idx |-> index label, vals |-> cell values]]  *)
(* where vals is aligned with cols by position.  Index labels and column   *)
(* names may repeat, as they may in pandas.  Tables live in a heap and are *)
(* referred to by reference, so that in-place mutation, reassignment and   *)
(* aliasing are visible in the model.                                      *)
(***************************************************************************)
EXTENDS Integers, Sequences, FiniteSets, TLC

VARIABLES
    heap,        \* sequence of tables; a reference is a position in it
    dataframe,   \* reference of the table the caller passed in
    before,      \* value of the caller's table when the call started
    prior,       \* value of the instance's table when its last clean() started
    strategies,  \* the list of strategy types given to clean_data
    options,     \* the keyword options (name -> value) given by the caller
    df,          \* clean_data's local df: reference of the working table
    i,           \* position in strategies of the current loop iteration
    strat,       \* the current strategy instance (or NoStrat)
    pc,          \* position of the running call
    raised,      \* the exception that reached the caller (or NoError)
    returned,    \* reference returned by clean_data (0: nothing returned)
    can_use,     \* last value returned by can_use_cleaner (direct use)
    args,        \* positional arguments of a constructor call after the table
    log          \* sequence of <<step, position>> executed so far

vars == <<heap, dataframe, before, prior, strategies, options, df, i, strat, pc,
          raised, returned, can_use, args, log>>

(***************************************************************************)
(* Bounds of the model.                                                    *)
(***************************************************************************)
MaxRows == 3          \* rows of a table
MaxStrategies == 2    \* length of the strategy list given to clean_data
MaxCleanCalls == 2     \* clean() calls made on one instance used directly
MaxOtherStrategies == 1   \* length of the list of the second of two calls

Vals == {1, 2}        \* cell values
Labels == {0, 1}      \* index labels of a table with any index

(***************************************************************************)
(* Sequence helpers.                                                       *)
(***************************************************************************)
Range(s) == {s[n] : n \in DOMAIN s}

\* The subsequence of s at the positions in S, in the order of s.
Pick(s, S) ==
    LET F[n \in 0..Len(s)] ==
            IF n = 0 THEN <<>>
            ELSE IF n \in S THEN Append(F[n - 1], s[n]) ELSE F[n - 1]
    IN F[Len(s)]

Reverse(s) == [n \in 1..Len(s) |-> s[Len(s) + 1 - n]]

\* All sequences over S of length at most n.
SeqsUpTo(S, n) == UNION {[1..m -> S] : m \in 0..n}

(***************************************************************************)
(* Exceptions.                                                             *)
(***************************************************************************)
NoError == [type |-> "none", missing_options |-> <<>>]
KeyError == [type |-> "KeyError", missing_options |-> <<>>]
TypeError == [type |-> "TypeError", missing_options |-> <<>>]
AttributeError == [type |-> "AttributeError", missing_options |-> <<>>]

MissingOptionsError(missing_options) ==
    [type |-> "MissingOptionsError", missing_options |-> missing_options]


(***************************************************************************)
(* The table collaborator (pandas.DataFrame), as far as the strategies use *)
(* it.                                                                     *)
(***************************************************************************)
Table(cols, rows) == [cols |-> cols, rows |-> rows]

\* Positions of the columns labelled name (more than one after a rename
\* that maps two columns to the same name).
ColPositions(t, name) == {j \in 1..Len(t.cols) : t.cols[j] = name}

\* DataFrame.empty: no rows or no columns.
Empty(t) == Len(t.rows) = 0 \/ Len(t.cols) = 0

\* DataFrame.copy(): a new object with the same labels and values.
copy(t) == Table(t.cols, t.rows)

\* DataFrame.iloc[::-1]: a new object, the rows in reverse order.
iloc_reversed(t) == Table(t.cols, Reverse(t.rows))

\* DataFrame.iloc[:n]: a new object, the first n rows.
iloc_head(t, n) ==
    Table(t.cols, SubSeq(t.rows, 1, IF n < Len(t.rows) THEN n ELSE Len(t.rows)))

\* The values row n holds in the columns whose label is in subset.
DupKey(t, subset, n) ==
    LET P == {j \in 1..Len(t.cols) : t.cols[j] \in Range(subset)}
    IN [j \in P |-> t.rows[n].vals[j]]

\* A bug that treats keep=False like keep='first'.
duplicated_false_as_first(t, subset, keep) ==
    {n \in 1..Len(t.rows) :
        \E m \in 1..Len(t.rows) :
            /\ DupKey(t, subset, m) = DupKey(t, subset, n)
            /\ CASE keep = "last" -> m > n
                 [] OTHER -> m < n}

\* A bug that marks one duplicate per call only: the first row that has a
\* later equal.
duplicated_one_per_call(t, subset, keep) ==
    LET D == {n \in 1..Len(t.rows) :
                 \E m \in 1..Len(t.rows) :
                     /\ DupKey(t, subset, m) = DupKey(t, subset, n)
                     /\ m > n}
    IN {n \in D : \A m \in D : n <= m}

\* DataFrame.duplicated(subset, keep): the positions of the rows marked as
\* duplicates.
duplicated(t, subset, keep) ==
    {n \in 1..Len(t.rows) :
        \E m \in 1..Len(t.rows) :
            /\ DupKey(t, subset, m) = DupKey(t, subset, n)
            /\ CASE keep = "first" -> m < n
                 [] keep = "last" -> m > n
                 [] OTHER -> m # n}

\* DataFrame.drop_duplicates(subset=, keep=, inplace=True): an empty table
\* is returned as it is before subset is looked at; a label of subset that
\* is no column raises KeyError; otherwise the rows not marked by
\* duplicated() remain, by position.
drop_duplicates(t, subset, keep) ==
    IF Empty(t) THEN [raised |-> NoError, table |-> t]
    ELSE IF ~(Range(subset) \subseteq Range(t.cols))
    THEN [raised |-> KeyError, table |-> t]
    ELSE [raised |-> NoError,
          table |-> Table(t.cols,
                          Pick(t.rows, (1..Len(t.rows)) \ duplicated(t, subset, keep)))]

\* A bug that replaces the labels one key after the other, so that a label
\* produced by one key is replaced again by another.
rename_chained(t, mapper) ==
    LET once(c) == IF c \in DOMAIN mapper THEN mapper[c] ELSE c
    IN Table([j \in 1..Len(t.cols) |-> once(once(t.cols[j]))], t.rows)

\* DataFrame.rename(columns=mapper, inplace=True): every column label that
\* is a key of mapper is replaced, all at once; other keys are ignored.
rename(t, mapper) ==
    Table([j \in 1..Len(t.cols) |->
               IF t.cols[j] \in DOMAIN mapper THEN mapper[t.cols[j]] ELSE t.cols[j]],
          t.rows)

\* DataFrame.drop(labels, inplace=True) on the rows: removal is by index
\* label, so every row that carries one of the labels goes.
drop_rows(t, labels) ==
    Table(t.cols, Pick(t.rows, {n \in 1..Len(t.rows) : t.rows[n].idx \notin labels}))

\* A bug that passes errors="ignore": the names that are columns are
\* dropped and the others are skipped without an exception.
drop_columns_ignore_missing(t, names) ==
    LET P == {j \in 1..Len(t.cols) : t.cols[j] \notin Range(names)}
    IN [raised |-> NoError,
        table |-> Table(Pick(t.cols, P),
                        [n \in 1..Len(t.rows) |->
                            [idx |-> t.rows[n].idx,
                             vals |-> Pick(t.rows[n].vals, P)]])]

\* DataFrame.drop(names, axis=1, inplace=True): a name that is no column
\* raises KeyError and nothing is dropped; otherwise every column carrying
\* one of the names goes.
drop_columns(t, names) ==
    IF ~(Range(names) \subseteq Range(t.cols))
    THEN [raised |-> KeyError, table |-> t]
    ELSE LET P == {j \in 1..Len(t.cols) : t.cols[j] \notin Range(names)}
         IN [raised |-> NoError,
             table |-> Table(Pick(t.cols, P),
                             [n \in 1..Len(t.rows) |->
                                 [idx |-> t.rows[n].idx,
                                  vals |-> Pick(t.rows[n].vals, P)]])]

\* df[name].unique() as a set; only defined for a label carried by exactly
\* one column.
unique(t, name) ==
    LET j == CHOOSE j \in ColPositions(t, name) : TRUE
    IN {t.rows[n].vals[j] : n \in 1..Len(t.rows)}

\* df[df[name].isin(values)].index: the labels of the rows selected.
isin_index(t, name, values) ==
    LET j == CHOOSE j \in ColPositions(t, name) : TRUE
    IN {t.rows[n].idx : n \in {n \in 1..Len(t.rows) : t.rows[n].vals[j] \in values}}

\* What evaluating df[name].unique() raises: KeyError when no column has
\* the label, AttributeError when several have it (the selection is then a
\* DataFrame, which has no unique()).
unique_raises(t, name) ==
    IF ColPositions(t, name) = {} THEN KeyError
    ELSE IF Cardinality(ColPositions(t, name)) > 1 THEN AttributeError
    ELSE NoError

(***************************************************************************)
(* The strategy contract: CleaningStrategy and its subclasses.             *)
(* An instance is [cls, dataframe, attrs]: its class, the reference it     *)
(* holds in self.dataframe, and the other attributes set on it.            *)
(***************************************************************************)
StrategyTypes ==
    {"RemoveDuplicates", "RenameHeaders", "FilterValidForeignKeys",
     "RemoveColumns", "ReverseStrategy", "FirstXRowsStrategy"}

NoStrat == [cls |-> "none", dataframe |-> 0, attrs |-> <<>>]

\* The class attribute required_options of each strategy type.
ClassRequiredOptions(cls) ==
    CASE cls = "RemoveDuplicates" ->
            <<"remove_duplicates_subset_fields", "remove_duplicates_keep">>
      [] cls = "RenameHeaders" -> <<"rename_headers_header_map">>
      [] cls = "FilterValidForeignKeys" ->
            <<"filter_valid_fk_df", "filter_valid_pk_field", "filter_valid_fk_field">>
      [] cls = "RemoveColumns" -> <<"remove_columns">>
      [] cls = "FirstXRowsStrategy" -> <<"x_top_rows">>
      [] OTHER -> <<>>

\* Names every instance has through its class, whatever the options.
ClassAttributes ==
    {"required_options", "info", "can_use_cleaner", "validate_options", "clean"}

\* A bug that hands an instance only the options its own type declares.
NewStrategy_declared_only(cls, ref, opts) ==
    LET own == (DOMAIN opts) \cap Range(ClassRequiredOptions(cls))
    IN [cls |-> cls,
        dataframe |-> ref,
        attrs |-> [k \in own \cup {"dataset_has_been_reversed"} |->
                      IF k \in own THEN opts[k] ELSE FALSE]]

\* CleaningStrategy.__init__: stores the table reference, sets
\* dataset_has_been_reversed, then sets every option as an attribute (an
\* option of that name overrides it).
NewStrategy(cls, ref, opts) ==
    [cls |-> cls,
     dataframe |-> ref,
     attrs |-> [k \in (DOMAIN opts) \cup {"dataset_has_been_reversed"} |->
                   IF k \in DOMAIN opts THEN opts[k] ELSE FALSE]]

\* hasattr(self, name)
HasAttr(self, name) ==
    \/ name \in DOMAIN self.attrs
    \/ name \in ClassAttributes
    \/ name = "dataframe"

\* self.required_options: the instance attribute when an option of that
\* name was set, the class attribute otherwise.
required_options(self) ==
    IF "required_options" \in DOMAIN self.attrs
    THEN self.attrs["required_options"]
    ELSE ClassRequiredOptions(self.cls)

\* A bug that reports only the first missing option.
can_use_cleaner_first_only(self) ==
    LET missing_options ==
            SelectSeq(required_options(self), LAMBDA option : ~HasAttr(self, option))
    IN <<Len(missing_options) = 0, SubSeq(missing_options, 1, 1)>>

\* CleaningStrategy.can_use_cleaner
can_use_cleaner(self) ==
    LET missing_options ==
            SelectSeq(required_options(self), LAMBDA option : ~HasAttr(self, option))
    IN <<Len(missing_options) = 0, missing_options>>

\* A bug that raises with an empty list when a strategy is not usable.
validate_options_drops_list(self) ==
    IF ~can_use_cleaner(self)[1] THEN MissingOptionsError(<<>>) ELSE NoError

\* CleaningStrategy.validate_options: the exception it raises (NoError when
\* it returns normally).
validate_options(self) ==
    LET r == can_use_cleaner(self)
    IN IF ~r[1] THEN MissingOptionsError(r[2]) ELSE NoError

\* The result of a clean(): what it raised, the heap and self.dataframe
\* it leaves.
CleanResult(e, h, ref) == [raised |-> e, heap |-> h, dataframe |-> ref]

\* RemoveDuplicates.clean: the two option attributes are read, then
\* drop_duplicates works in place on self.dataframe.
RemoveDuplicates_clean(self, h) ==
    IF \/ ~HasAttr(self, "remove_duplicates_subset_fields")
       \/ ~HasAttr(self, "remove_duplicates_keep")
    THEN CleanResult(AttributeError, h, self.dataframe)
    ELSE LET r == drop_duplicates(h[self.dataframe],
                                  self.attrs["remove_duplicates_subset_fields"],
                                  self.attrs["remove_duplicates_keep"])
         IN CleanResult(r.raised, [h EXCEPT ![self.dataframe] = r.table],
                        self.dataframe)

\* RenameHeaders.clean: rename works in place on self.dataframe.
RenameHeaders_clean(self, h) ==
    IF ~HasAttr(self, "rename_headers_header_map")
    THEN CleanResult(AttributeError, h, self.dataframe)
    ELSE CleanResult(NoError,
                     [h EXCEPT ![self.dataframe] =
                         rename(h[self.dataframe],
                                self.attrs["rename_headers_header_map"])],
                     self.dataframe)

\* FilterValidForeignKeys.clean: the set of values of the foreign key
\* column, the set of values of the primary key column of the other table,
\* their difference, and the drop of the index labels of the rows whose
\* foreign key is in the difference, in place.
FilterValidForeignKeys_clean(self, h) ==
    IF ~HasAttr(self, "filter_valid_fk_field")
    THEN CleanResult(AttributeError, h, self.dataframe)
    ELSE LET t == h[self.dataframe]
             fk == self.attrs["filter_valid_fk_field"]
         IN IF unique_raises(t, fk) # NoError
            THEN CleanResult(unique_raises(t, fk), h, self.dataframe)
            ELSE IF \/ ~HasAttr(self, "filter_valid_fk_df")
                    \/ ~HasAttr(self, "filter_valid_pk_field")
            THEN CleanResult(AttributeError, h, self.dataframe)
            ELSE LET other == h[self.attrs["filter_valid_fk_df"]]
                     pk == self.attrs["filter_valid_pk_field"]
                 IN IF unique_raises(other, pk) # NoError
                    THEN CleanResult(unique_raises(other, pk), h, self.dataframe)
                    ELSE LET unique_fk_values == unique(t, fk)
                             unique_pk_values == unique(other, pk)
                             invalid_fk_values == unique_fk_values \ unique_pk_values
                         IN CleanResult(
                                NoError,
                                [h EXCEPT ![self.dataframe] =
                                    drop_rows(t, isin_index(t, fk, invalid_fk_values))],
                                self.dataframe)

\* RemoveColumns.clean: drop of the columns, in place.
RemoveColumns_clean(self, h) ==
    IF ~HasAttr(self, "remove_columns")
    THEN CleanResult(AttributeError, h, self.dataframe)
    ELSE LET r == drop_columns(h[self.dataframe], self.attrs["remove_columns"])
         IN CleanResult(r.raised, [h EXCEPT ![self.dataframe] = r.table],
                        self.dataframe)

\* ReverseStrategy.clean: self.dataframe is reassigned to a new table.
ReverseStrategy_clean(self, h) ==
    CleanResult(NoError, Append(h, iloc_reversed(h[self.dataframe])), Len(h) + 1)

\* The number of rows FirstXRowsStrategy.clean keeps.
FirstXRows == 2

\* FirstXRowsStrategy.clean: self.dataframe is reassigned to a new table.
FirstXRowsStrategy_clean(self, h) ==
    CleanResult(NoError, Append(h, iloc_head(h[self.dataframe], FirstXRows)),
                Len(h) + 1)

\* strat.clean(): dispatch on the class of the instance.
clean(self, h) ==
    CASE self.cls = "RemoveDuplicates" -> RemoveDuplicates_clean(self, h)
      [] self.cls = "RenameHeaders" -> RenameHeaders_clean(self, h)
      [] self.cls = "FilterValidForeignKeys" -> FilterValidForeignKeys_clean(self, h)
      [] self.cls = "RemoveColumns" -> RemoveColumns_clean(self, h)
      [] self.cls = "ReverseStrategy" -> ReverseStrategy_clean(self, h)
      [] OTHER -> FirstXRowsStrategy_clean(self, h)

(***************************************************************************)
(* Inputs.                                                                 *)
(***************************************************************************)
Columns == <<"a", "b">>

\* A row of a table with the columns a and b.
Rows(labels) == {[idx |-> l, vals |-> <<x, y>>] : l \in labels, x \in Vals, y \in Vals}

\* Tables of at most n rows with any index labels (repeated ones included).
Tables(n) == {Table(Columns, rows) : rows \in SeqsUpTo(Rows(Labels), n)}

\* Tables of at most n rows with the default index 0, 1, 2, ..., whose
\* column a varies and whose column b holds 1 throughout.
RangeIndexTables(n) ==
    {Table(Columns, [k \in 1..Len(v) |-> [idx |-> k - 1, vals |-> <<v[k], 1>>]]) :
        v \in SeqsUpTo(Vals, n)}

\* The other table of FilterValidForeignKeys: one column a holding pks.
ForeignTable(pks) ==
    Table(<<"a">>, [k \in 1..Len(pks) |-> [idx |-> k - 1, vals |-> <<pks[k]>>]])

ForeignTables == {ForeignTable(<<>>), ForeignTable(<<1>>), ForeignTable(<<2, 1>>)}

PipelineForeignTables == {ForeignTable(<<1>>)}

\* The values an option may be given when a strategy is used directly.
\* "z" is the name of no column, "clean" the name of a method.
OptionValues(name) ==
    CASE name = "remove_duplicates_subset_fields" -> {<<"a">>, <<"a", "b">>, <<"z">>}
      [] name = "remove_duplicates_keep" -> {"first", "last", "False"}
      [] name = "rename_headers_header_map" ->
            {[a |-> "c"], [a |-> "b", b |-> "a"], [a |-> "b", z |-> "a"]}
      [] name = "filter_valid_fk_df" -> {1, 2}
      [] name = "filter_valid_pk_field" -> {"a"}
      [] name = "filter_valid_fk_field" -> {"a", "b"}
      [] name = "remove_columns" -> {<<"b">>, <<"a", "z">>}
      [] name = "x_top_rows" -> {1, 2}
      [] name = "required_options" -> {<<>>, <<"x_top_rows", "clean">>}
      [] OTHER -> {}

\* The values an option may be given in a call of clean_data.
PipelineOptionValues(name) ==
    CASE name = "remove_duplicates_subset_fields" -> {<<"a">>}
      [] name = "remove_duplicates_keep" -> {"last", "False"}
      [] name = "rename_headers_header_map" -> {[a |-> "c"]}
      [] name = "filter_valid_fk_df" -> {1, 2}
      [] name = "filter_valid_pk_field" -> {"a"}
      [] name = "filter_valid_fk_field" -> {"a"}
      [] name = "remove_columns" -> {<<"b">>, <<"a", "z">>}
      [] name = "x_top_rows" -> {1}
      [] name = "required_options" -> {<<>>}
      [] OTHER -> {}

OptionNames ==
    {"remove_duplicates_subset_fields", "remove_duplicates_keep",
     "rename_headers_header_map", "filter_valid_fk_df", "filter_valid_pk_field",
     "filter_valid_fk_field", "remove_columns", "x_top_rows", "required_options"}

\* All option mappings that bind a subset of names, each to one of the
\* values given for it.
OptionsOver(names, values) ==
    LET F[S \in SUBSET names] ==
            IF S = {} THEN {<<>>}
            ELSE LET k == CHOOSE k \in S : TRUE
                 IN F[S \ {k}] \cup
                    {[n \in (DOMAIN o) \cup {k} |-> IF n = k THEN v ELSE o[n]] :
                        o \in F[S \ {k}], v \in values[k]}
    IN F[names]

(***************************************************************************)
(* clean_data(dataframe, strategies, **options), step by step.             *)
(***************************************************************************)
\* The option names the strategy types of a list declare.
DeclaredOptions(types) ==
    UNION {Range(ClassRequiredOptions(types[n])) : n \in DOMAIN types}

\* A bug that works on the caller's table itself.
CopyDataframe_alias(h, ref) == [heap |-> h, df |-> ref]

\* df = dataframe.copy(): a new table in the heap.
CopyDataframe(h, ref) == [heap |-> Append(h, copy(h[ref])), df |-> Len(h) + 1]

\* A bug that keeps the table the instance was created with.
NextDataframe_stale(self, old) == old

\* df = strat.dataframe
NextDataframe(self, old) == self.dataframe

\* A bug that goes on to clean() whatever validate_options() raised.
AfterValidate_ignore(e) == "clean"

\* Where clean_data is after strat.validate_options(): an exception leaves
\* the function.
AfterValidate(e) == IF e = NoError THEN "clean" ELSE "raised"

\* A bug that swallows the exception of clean() and goes on.
AfterClean_swallow(e) == "assign"

\* Where clean_data is after strat.clean(): an exception leaves the
\* function.
AfterClean(e) == IF e = NoError THEN "assign" ELSE "raised"

Init ==
    /\ \E t \in RangeIndexTables(MaxRows), f \in PipelineForeignTables :
          /\ heap = <<t, f>>
          /\ before = t
          /\ prior = t
    /\ dataframe = 1
    /\ strategies \in SeqsUpTo(StrategyTypes, MaxStrategies)
    /\ options \in OptionsOver(DeclaredOptions(strategies) \cup {"required_options"},
                              [k \in OptionNames |-> PipelineOptionValues(k)])
    /\ df = 0
    /\ i = 0
    /\ strat = NoStrat
    /\ pc = "call"
    /\ raised = NoError
    /\ returned = 0
    /\ can_use = <<>>
    /\ args = <<>>
    /\ log = <<>>

\* line 100
Copy ==
    /\ pc = "call"
    /\ LET c == CopyDataframe(heap, dataframe)
       IN /\ heap' = c.heap
          /\ df' = c.df
    /\ i' = 1
    /\ pc' = "loop"
    /\ UNCHANGED <<args, dataframe, before, prior, strategies, options, strat,
                   raised, returned, can_use, log>>

\* line 102
Instantiate ==
    /\ pc = "loop"
    /\ i <= Len(strategies)
    /\ strat' = NewStrategy(strategies[i], df, options)
    /\ log' = Append(log, <<"init", i, "none">>)
    /\ pc' = "validate"
    /\ UNCHANGED <<args, heap, dataframe, before, prior, strategies, options,
                   df, i, raised, returned, can_use>>

\* line 103
Validate ==
    /\ pc = "validate"
    /\ LET e == validate_options(strat)
       IN /\ log' = Append(log, <<"validate", i, e.type>>)
          /\ pc' = AfterValidate(e)
          /\ raised' = IF pc' = "raised" THEN e ELSE raised
    /\ UNCHANGED <<args, heap, dataframe, before, prior, strategies, options,
                   df, i, strat, returned, can_use>>

\* line 104
Clean ==
    /\ pc = "clean"
    /\ LET r == clean(strat, heap)
       IN /\ prior' = heap[strat.dataframe]
          /\ heap' = r.heap
          /\ strat' = [strat EXCEPT !.dataframe = r.dataframe]
          /\ log' = Append(log, <<"clean", i, r.raised.type>>)
          /\ pc' = AfterClean(r.raised)
          /\ raised' = IF pc' = "raised" THEN r.raised ELSE raised
    /\ UNCHANGED <<args, dataframe, before, strategies, options, df, i,
                   returned, can_use>>

\* line 105
Assign ==
    /\ pc = "assign"
    /\ df' = NextDataframe(strat, df)
    /\ i' = i + 1
    /\ pc' = "loop"
    /\ UNCHANGED <<args, heap, dataframe, before, prior, strategies, options,
                   strat, raised, returned, can_use, log>>

\* line 106
Return ==
    /\ pc = "loop"
    /\ i > Len(strategies)
    /\ returned' = df
    /\ pc' = "returned"
    /\ UNCHANGED <<args, heap, dataframe, before, prior, strategies, options,
                   df, i, strat, raised, can_use, log>>

Next == Copy \/ Instantiate \/ Validate \/ Clean \/ Assign \/ Return

Spec == Init /\ [][Next]_vars

(***************************************************************************)
(* Direct use of a strategy instance, as the unit tests do: the instance   *)
(* is constructed from a table and options, then its methods are called.   *)
(***************************************************************************)
\* The state after strategy = cls(t, **opts), with f the other table.
Constructed(cls, t, f, opts) ==
    /\ heap = <<t, f>>
    /\ before = t
    /\ prior = t
    /\ dataframe = 1
    /\ strategies = <<cls>>
    /\ options = opts
    /\ df = 0
    /\ i = 1
    /\ strat = NewStrategy(cls, 1, opts)
    /\ pc = "direct"
    /\ raised = NoError
    /\ returned = 0
    /\ can_use = <<>>
    /\ args = <<>>
    /\ log = <<>>

\* Instances given options among those their type declares (and possibly
\* required_options), on any table.
InitClean ==
    \E cls \in StrategyTypes, t \in Tables(MaxRows) :
        \E f \in IF cls = "FilterValidForeignKeys" THEN ForeignTables
                                                 ELSE PipelineForeignTables :
            \E opts \in OptionsOver(Range(ClassRequiredOptions(cls))
                                        \cup {"required_options"},
                                    [k \in OptionNames |-> OptionValues(k)]) :
                Constructed(cls, t, f, opts)

\* strategy.clean()
CallClean ==
    /\ pc = "direct"
    /\ Len(log) < MaxCleanCalls
    /\ LET r == clean(strat, heap)
       IN /\ prior' = heap[strat.dataframe]
          /\ heap' = r.heap
          /\ strat' = [strat EXCEPT !.dataframe = r.dataframe]
          /\ raised' = r.raised
          /\ log' = Append(log, <<"clean", i, r.raised.type>>)
    /\ UNCHANGED <<args, dataframe, before, strategies, options, df, i, pc,
                   returned, can_use>>

NextClean == CallClean

SpecClean == InitClean /\ [][NextClean]_vars

\* Instances of every type given any options, on one table.
InitValidate ==
    \E cls \in StrategyTypes, opts \in OptionsOver(OptionNames, [k \in OptionNames |-> OptionValues(k)]) :
        Constructed(cls, Table(Columns, <<>>), ForeignTable(<<>>), opts)

\* strategy.can_use_cleaner()
CallCanUseCleaner ==
    /\ pc = "direct"
    /\ can_use = <<>>
    /\ can_use' = can_use_cleaner(strat)
    /\ UNCHANGED <<args, heap, dataframe, before, prior, strategies, options,
                   df, i, strat, pc, raised, returned, log>>

\* strategy.validate_options()
CallValidateOptions ==
    /\ pc = "direct"
    /\ log = <<>>
    /\ LET e == validate_options(strat)
       IN /\ raised' = e
          /\ log' = Append(log, <<"validate", i, e.type>>)
    /\ UNCHANGED <<args, heap, dataframe, before, prior, strategies, options,
                   df, i, strat, pc, returned, can_use>>

NextValidate == CallCanUseCleaner \/ CallValidateOptions

SpecValidate == InitValidate /\ [][NextValidate]_vars

(***************************************************************************)
(* Properties of clean_data (specification Spec).                          *)
(***************************************************************************)
\* The positions of strategies for which step was executed.
Executed(step) == {log[k][2] : k \in {k \in DOMAIN log : log[k][1] = step}}

\* The names of its required options the strategy at position n finds
\* unbound, from the options of the call alone.
Unbound(n) ==
    LET required == IF "required_options" \in DOMAIN options
                    THEN options["required_options"]
                    ELSE ClassRequiredOptions(strategies[n])
    IN SelectSeq(required,
                 LAMBDA name :
                     name \notin (DOMAIN options) \cup ClassAttributes
                                  \cup {"dataframe", "dataset_has_been_reversed"})

Finished == pc \in {"returned", "raised"}

\* C1: the table the caller passed to clean_data has the same columns, rows
\* and values at every moment of the call, and after it, whether the call
\* returns or raises, as when the call started.
C1_Isolation == heap[dataframe] = before

\* C1 witness: the call was aborted by an exception after an earlier
\* strategy had changed the working table.
C1_Witness ==
    /\ pc = "raised"
    /\ Executed("clean") # {}
    /\ heap[df] # before
    /\ heap[dataframe] = before

\* clean_data(t, <<cls>>, opts) on its own: the exception it raises and the
\* table it returns, in a heap that holds the two tables the options may
\* refer to and the copy the call works on.
Single(t, cls, opts, tables) ==
    LET h == Append(tables, copy(t))
        self == NewStrategy(cls, Len(h), opts)
        e == validate_options(self)
        r == clean(self, h)
    IN IF e # NoError THEN [raised |-> e, table |-> t]
       ELSE IF r.raised # NoError THEN [raised |-> r.raised, table |-> t]
       ELSE [raised |-> NoError, table |-> r.heap[r.dataframe]]

\* The strategies of types applied one after the other, each call of
\* clean_data being given the table the previous call returned.
Composed(t, types, opts, tables) ==
    LET F[n \in 0..Len(types)] ==
            IF n = 0 THEN [raised |-> NoError, table |-> copy(t)]
            ELSE IF F[n - 1].raised # NoError THEN F[n - 1]
            ELSE Single(F[n - 1].table, types[n], opts, tables)
    IN F[Len(types)]

\* C2: clean_data with a list of strategies returns what the calls of
\* clean_data with one strategy each, chained in list order, return: in
\* particular clean_data(t, [A, B], c) = clean_data(clean_data(t, [A], c),
\* [B], c), and it raises exactly when that chain raises, with the same
\* exception.
C2_SequentialComposition ==
    LET c == Composed(before, strategies, options, <<before, heap[2]>>)
    IN /\ pc = "returned" => c.raised = NoError /\ heap[returned] = c.table
       /\ pc = "raised" => c.raised = raised

\* C2 witness: a strategy that reassigns its table followed by one that
\* works in place, both with effect.
C2_Witness ==
    /\ pc = "returned"
    /\ strategies = <<"ReverseStrategy", "RemoveDuplicates">>
    /\ Len(heap[returned].rows) < Len(before.rows)
    /\ heap[returned] #
          Single(before, "RemoveDuplicates", options, <<before, heap[2]>>).table

\* C3 as stated: when some strategy of the list has a required option that
\* the options lack, clean_data raises MissingOptionsError and no clean()
\* of the list is executed.  (Options that name required_options are left
\* out of this statement.)
C3_NoCleanAtAll ==
    (/\ "required_options" \notin DOMAIN options
     /\ \E n \in DOMAIN strategies : Unbound(n) # <<>>)
    => /\ Executed("clean") = {}
       /\ Finished => raised.type = "MissingOptionsError"

\* C3 amended: when the strategy at position n finds a required option
\* unbound, no clean() at position n or later is executed and clean_data
\* returns no table; once that strategy has been validated the call has
\* raised MissingOptionsError with the unbound names, and clean() of every
\* earlier position has been executed.
C3_ValidationGating ==
    \A n \in DOMAIN strategies :
        Unbound(n) # <<>> =>
            /\ \A m \in Executed("clean") : m < n
            /\ pc # "returned"
            /\ n \in Executed("validate") =>
                  /\ pc = "raised"
                  /\ raised = MissingOptionsError(Unbound(n))
                  /\ Executed("clean") = 1..(n - 1)

\* C3 witness: the second strategy failed validation after the first one
\* had cleaned.
C3_Witness ==
    /\ pc = "raised"
    /\ raised.type = "MissingOptionsError"
    /\ Len(strategies) = 2
    /\ Unbound(2) # <<>>
    /\ Executed("clean") = {1}
    /\ heap[df] # before

\* C4: an exception raised by validate_options() or clean() at position i
\* is the last step of the call: nothing is instantiated, validated or
\* cleaned after it, it is the exception the caller gets, and clean_data
\* returns no table.
C4_FailureShortCircuit ==
    /\ \A k \in DOMAIN log :
          log[k][3] # "none" =>
              /\ k = Len(log)
              /\ pc = "raised"
              /\ raised.type = log[k][3]
              /\ \A j \in DOMAIN log : log[j][2] <= log[k][2]
    /\ pc = "raised" => returned = 0 /\ raised # NoError
    /\ pc = "returned" => raised = NoError

\* C4 witness: clean() of the first of two strategies raised; the second
\* was never instantiated.
C4_Witness ==
    /\ pc = "raised"
    /\ Len(strategies) = 2
    /\ log[Len(log)] = <<"clean", 1, "KeyError">>
    /\ returned = 0

(***************************************************************************)
(* Properties of can_use_cleaner and validate_options (specification       *)
(* SpecValidate).                                                          *)
(***************************************************************************)
\* The required options the instance sees: those of its type, unless the
\* options name required_options.
Required ==
    IF "required_options" \in DOMAIN options
    THEN options["required_options"]
    ELSE ClassRequiredOptions(strategies[1])

\* name is bound on the instance: an option, or a member of the class.
Bound(name) ==
    name \in (DOMAIN options) \cup ClassAttributes
                 \cup {"dataframe", "dataset_has_been_reversed"}

\* The position of name in the list of required options.
RequiredPos(name) == CHOOSE n \in DOMAIN Required : Required[n] = name

\* C5: can_use_cleaner returns (TRUE, <<>>) exactly when every required
\* option is bound on the instance; otherwise (FALSE, L) with L holding
\* exactly the required names that are not bound, each once, in the order
\* of required_options; with no options at all the built-in strategies
\* report 2, 1, 3 and 1 names.
C5_CanUseCleaner ==
    can_use # <<>> =>
        LET L == can_use[2]
        IN /\ can_use[1] = (\A name \in Range(Required) : Bound(name))
           /\ can_use[1] => L = <<>>
           /\ Range(L) = {name \in Range(Required) : ~Bound(name)}
           /\ \A p, q \in DOMAIN L :
                 p < q => L[p] # L[q] /\ RequiredPos(L[p]) < RequiredPos(L[q])
           /\ options = <<>> =>
                 Len(L) = CASE strategies[1] = "RemoveDuplicates" -> 2
                            [] strategies[1] = "RenameHeaders" -> 1
                            [] strategies[1] = "FilterValidForeignKeys" -> 3
                            [] strategies[1] = "RemoveColumns" -> 1
                            [] OTHER -> Len(L)

\* C5 witness: two of the three options of FilterValidForeignKeys are not
\* bound and are reported in the order of their declaration.
C5_Witness ==
    /\ strategies[1] = "FilterValidForeignKeys"
    /\ "filter_valid_pk_field" \in DOMAIN options
    /\ can_use = <<FALSE, <<"filter_valid_fk_df", "filter_valid_fk_field">>>>

\* C6: validate_options raises MissingOptionsError exactly when the
\* strategy is not usable, the error carries all the unbound required
\* names in the order can_use_cleaner returns them, and a usable strategy
\* raises nothing; the table and the instance are as before the call.
C6_ValidateOptions ==
    log # <<>> =>
        /\ (raised # NoError) = (Unbound(1) # <<>>)
        /\ raised # NoError => raised = MissingOptionsError(Unbound(1))
        /\ can_use # <<>> =>
              /\ (raised # NoError) = ~can_use[1]
              /\ raised.missing_options = can_use[2]
        /\ heap[1] = before
        /\ strat = NewStrategy(strategies[1], 1, options)

\* C6 witness: the error carries more than one name.
C6_Witness ==
    /\ log # <<>>
    /\ can_use # <<>>
    /\ raised.type = "MissingOptionsError"
    /\ Len(raised.missing_options) = 3

(***************************************************************************)
(* Properties of the clean() of the built-in strategies (specification     *)
(* SpecClean).                                                             *)
(***************************************************************************)
\* The last clean() of an instance of type cls returned normally.
Cleaned(cls) ==
    /\ strategies[1] = cls
    /\ log # <<>>
    /\ log[Len(log)][3] = "none"

\* The table the instance holds.
Current == heap[strat.dataframe]

\* Rows m and n of t agree on every column named in subset.
SameGroup(t, subset, m, n) ==
    \A j \in 1..Len(t.cols) :
        t.cols[j] \in Range(subset) => t.rows[m].vals[j] = t.rows[n].vals[j]

\* The rows of t that survive RemoveDuplicates under a keep policy.
Survivors(t, subset, keep) ==
    {n \in 1..Len(t.rows) :
        \A m \in 1..Len(t.rows) :
            SameGroup(t, subset, m, n) =>
                CASE keep = "first" -> n <= m
                  [] keep = "last" -> n >= m
                  [] OTHER -> n = m}

\* C7: RemoveDuplicates.clean groups the rows by their values on the
\* subset columns; keep 'first' leaves exactly the first row of every
\* group, keep 'last' exactly the last, keep False only the rows of groups
\* of one; the rows left keep their order and all their values.
C7_RemoveDuplicates ==
    (/\ Cleaned("RemoveDuplicates")
     /\ "remove_duplicates_subset_fields" \in DOMAIN options
     /\ "remove_duplicates_keep" \in DOMAIN options)
    => Current =
          Table(prior.cols,
                Pick(prior.rows,
                     Survivors(prior, options["remove_duplicates_subset_fields"],
                               options["remove_duplicates_keep"])))

\* C7 witness: keep False on three rows, two of them in one group: only the
\* row of the group of one is left.
C7_Witness ==
    /\ Cleaned("RemoveDuplicates")
    /\ Len(log) = 1
    /\ "remove_duplicates_keep" \in DOMAIN options
    /\ options["remove_duplicates_keep"] = "False"
    /\ Len(prior.rows) = 3
    /\ Len(Current.rows) = 1

\* C8: with keep 'last', a second RemoveDuplicates.clean with the same
\* options leaves the table the first one produced.
C8_Idempotence ==
    (/\ Cleaned("RemoveDuplicates")
     /\ Len(log) = 2
     /\ log[1][3] = "none"
     /\ "remove_duplicates_keep" \in DOMAIN options
     /\ options["remove_duplicates_keep"] = "last")
    => Current = prior

\* C8 witness: the first clean removed two rows of three, the second none.
C8_Witness ==
    /\ Cleaned("RemoveDuplicates")
    /\ Len(log) = 2
    /\ log[1][3] = "none"
    /\ "remove_duplicates_keep" \in DOMAIN options
    /\ options["remove_duplicates_keep"] = "last"
    /\ Len(before.rows) = 3
    /\ Len(prior.rows) = 1
    /\ Current = prior

\* The values of the primary key column of the other table.
PrimaryKeys ==
    LET other == heap[options["filter_valid_fk_df"]]
        j == CHOOSE j \in 1..Len(other.cols) :
                 other.cols[j] = options["filter_valid_pk_field"]
    IN {other.rows[n].vals[j] : n \in 1..Len(other.rows)}

\* The rows of prior whose foreign key value is a primary key of the other
\* table.
ValidRows ==
    LET j == CHOOSE j \in 1..Len(prior.cols) :
                 prior.cols[j] = options["filter_valid_fk_field"]
    IN {n \in 1..Len(prior.rows) : prior.rows[n].vals[j] \in PrimaryKeys}

\* The other table is not the table the instance cleans.
OtherTable ==
    /\ "filter_valid_fk_df" \in DOMAIN options
    /\ options["filter_valid_fk_df"] # strat.dataframe

\* C9: FilterValidForeignKeys.clean leaves exactly the rows whose foreign
\* key value occurs in the primary key column of the other table, in their
\* order and with their values.
C9_FilterValidForeignKeys ==
    (Cleaned("FilterValidForeignKeys") /\ OtherTable)
    => Current = Table(prior.cols, Pick(prior.rows, ValidRows))

\* C9 on the tables whose index labels are all different: there the rows
\* left are exactly the rows with a valid foreign key.
C9_UniqueIndex ==
    (/\ Cleaned("FilterValidForeignKeys")
     /\ OtherTable
     /\ \A m, n \in 1..Len(prior.rows) :
           m # n => prior.rows[m].idx # prior.rows[n].idx)
    => Current = Table(prior.cols, Pick(prior.rows, ValidRows))

\* C10: RenameHeaders.clean renames every column whose name is a key of the
\* map to the mapped name, leaves the other names, ignores the keys that
\* name no column without an error, and keeps the column order, the rows
\* and all the values.
C10_RenameHeaders ==
    (/\ strategies[1] = "RenameHeaders"
     /\ pc = "direct"
     /\ log # <<>>
     /\ "rename_headers_header_map" \in DOMAIN options)
    => LET map == options["rename_headers_header_map"]
       IN /\ log[Len(log)][3] = "none"
          /\ Current.rows = prior.rows
          /\ Len(Current.cols) = Len(prior.cols)
          /\ \A j \in 1..Len(prior.cols) :
                Current.cols[j] = IF prior.cols[j] \in DOMAIN map
                                  THEN map[prior.cols[j]]
                                  ELSE prior.cols[j]

\* C10 witness: a map with a key that names no column; the column a is
\* renamed, nothing else changes.
C10_Witness ==
    /\ Cleaned("RenameHeaders")
    /\ Len(log) = 1
    /\ "rename_headers_header_map" \in DOMAIN options
    /\ DOMAIN options["rename_headers_header_map"] = {"a", "z"}
    /\ Current.cols = <<"b", "b">>
    /\ Len(Current.rows) = 2

(***************************************************************************)
(* Properties of RemoveColumns (specification Spec).                       *)
(***************************************************************************)
\* The latest entry of the log is the clean() of a strategy of type cls.
LastCleaned(cls) ==
    /\ log # <<>>
    /\ log[Len(log)][1] = "clean"
    /\ strategies[log[Len(log)][2]] = cls

\* C11: RemoveColumns.clean, when every name of remove_columns is a column
\* of the table, leaves exactly the columns that are not named, in their
\* order, with the rows, their labels and the remaining values as they were;
\* when some name is no column it raises KeyError, no column is removed,
\* and clean_data ends with that same KeyError.
C11_RemoveColumns ==
    (LastCleaned("RemoveColumns") /\ "remove_columns" \in DOMAIN options)
    => LET names == Range(options["remove_columns"])
           kept == {j \in 1..Len(prior.cols) : prior.cols[j] \notin names}
       IN IF names \subseteq Range(prior.cols)
          THEN /\ log[Len(log)][3] = "none"
               /\ pc # "raised"
               /\ Current.cols = Pick(prior.cols, kept)
               /\ Len(Current.rows) = Len(prior.rows)
               /\ \A n \in 1..Len(prior.rows) :
                     /\ Current.rows[n].idx = prior.rows[n].idx
                     /\ Current.rows[n].vals = Pick(prior.rows[n].vals, kept)
          ELSE /\ log[Len(log)][3] = "KeyError"
               /\ Current = prior
               /\ pc = "raised"
               /\ raised = KeyError

\* C11 witness: of the two names given one is a column and one is not;
\* clean_data has raised KeyError and the working table, which an earlier
\* strategy had reversed, still has both its columns.
C11_Witness ==
    /\ LastCleaned("RemoveColumns")
    /\ strategies[1] = "ReverseStrategy"
    /\ "remove_columns" \in DOMAIN options
    /\ options["remove_columns"] = <<"a", "z">>
    /\ pc = "raised"
    /\ raised = KeyError
    /\ Current.cols = <<"a", "b">>
    /\ Len(Current.rows) = MaxRows

(***************************************************************************)
(* The legacy strategies of data_cleaners/methods.py, which read their     *)
(* settings from a model class, used as tests/test_methods.py does: the    *)
(* instance is constructed from a table and a model, then clean() is       *)
(* called.                                                                 *)
(***************************************************************************)
\* The model classes of tests/utils/models.py, by their class attributes;
\* the columns id and name of the tests are the columns a and b here.
User ==
    [name |-> "User",
     DataCleaner |-> [remove_duplicates_subset_fields |-> <<"a", "b">>]]

Purchase == [name |-> "Purchase", DataCleaner |-> [fk_map |-> "User"]]

MisconfiguredModel == [name |-> "MisconfiguredModel"]

Models == {User, Purchase, MisconfiguredModel}

\* What CleaningStrategy.__init__(self, dataframe, **options) raises when
\* it is called with positional arguments after the table: it takes none.
init_raises(a) == IF a # <<>> THEN TypeError ELSE NoError

\* methods.RemoveDuplicates.clean: self.validate_model() is looked up first,
\* a name that neither class defines; then the model's settings are read
\* and drop_duplicates works in place, keeping the last row.
methods_RemoveDuplicates_clean(self, h) ==
    IF ~HasAttr(self, "validate_model")
    THEN CleanResult(AttributeError, h, self.dataframe)
    ELSE IF ~HasAttr(self, "model")
    THEN CleanResult(AttributeError, h, self.dataframe)
    ELSE LET model == self.attrs["model"]
         IN IF \/ "DataCleaner" \notin DOMAIN model
               \/ "remove_duplicates_subset_fields" \notin DOMAIN model.DataCleaner
            THEN CleanResult(AttributeError, h, self.dataframe)
            ELSE LET r == drop_duplicates(
                              h[self.dataframe],
                              model.DataCleaner.remove_duplicates_subset_fields,
                              "last")
                 IN CleanResult(r.raised, [h EXCEPT ![self.dataframe] = r.table],
                                self.dataframe)

\* A call methods.RemoveDuplicates(t, model), as the tests write it, or
\* methods.RemoveDuplicates(t, model=model), about to be evaluated.
InitLegacy ==
    \E t \in Tables(MaxRows), model \in Models, positional \in BOOLEAN :
        /\ heap = <<t>>
        /\ before = t
        /\ prior = t
        /\ dataframe = 1
        /\ strategies = <<"methods.RemoveDuplicates">>
        /\ args = IF positional THEN <<model>> ELSE <<>>
        /\ options = IF positional THEN <<>> ELSE [k \in {"model"} |-> model]
        /\ df = 0
        /\ i = 1
        /\ strat = NoStrat
        /\ pc = "new"
        /\ raised = NoError
        /\ returned = 0
        /\ can_use = <<>>
        /\ log = <<>>

\* remove_duplicates = methods.RemoveDuplicates(...)
LegacyConstruct ==
    /\ pc = "new"
    /\ LET e == init_raises(args)
       IN /\ raised' = e
          /\ pc' = IF e = NoError THEN "direct" ELSE "raised"
          /\ strat' = IF e = NoError
                      THEN NewStrategy(strategies[1], dataframe, options)
                      ELSE strat
    /\ UNCHANGED <<args, heap, dataframe, before, prior, strategies, options,
                   df, i, returned, can_use, log>>

\* remove_duplicates.clean()
LegacyClean ==
    /\ pc = "direct"
    /\ log = <<>>
    /\ LET r == methods_RemoveDuplicates_clean(strat, heap)
       IN /\ prior' = heap[strat.dataframe]
          /\ heap' = r.heap
          /\ strat' = [strat EXCEPT !.dataframe = r.dataframe]
          /\ raised' = r.raised
          /\ log' = Append(log, <<"clean", i, r.raised.type>>)
    /\ UNCHANGED <<args, dataframe, before, strategies, options, df, i, pc,
                   returned, can_use>>

NextLegacy == LegacyConstruct \/ LegacyClean

SpecLegacy == InitLegacy /\ [][NextLegacy]_vars

(***************************************************************************)
(* Properties of the legacy RemoveDuplicates (specification SpecLegacy).   *)
(***************************************************************************)
\* The exception the tests expect of a model without settings.
NotImplementedError == [type |-> "NotImplementedError", missing_options |-> <<>>]

\* The model the instance was constructed with.
GivenModel == IF args # <<>> THEN args[1] ELSE options["model"]

\* C12: once a legacy RemoveDuplicates was constructed from a table and a
\* model and clean() was called on it, a model without DataCleaner, or
\* whose DataCleaner has no remove_duplicates_subset_fields, has made
\* clean() raise NotImplementedError with the table as it was; a model that
\* declares remove_duplicates_subset_fields has made clean() return with
\* the last row of every group of rows equal on those fields left, in order.
C12_LegacyRemoveDuplicates ==
    (pc = "raised" \/ log # <<>>) =>
        IF \/ "DataCleaner" \notin DOMAIN GivenModel
           \/ "remove_duplicates_subset_fields" \notin DOMAIN GivenModel.DataCleaner
        THEN /\ raised = NotImplementedError
             /\ log # <<>>
             /\ heap[1] = before
        ELSE LET subset == GivenModel.DataCleaner.remove_duplicates_subset_fields
             IN /\ raised = NoError
                /\ heap[1] = Table(before.cols,
                                   Pick(before.rows, Survivors(before, subset, "last")))

(***************************************************************************)
(* Two calls of clean_data running at the same time (two threads of one    *)
(* program): they share the heap and the option values, each has its own   *)
(* argument table, list of strategies and locals.  Here dataframe, before, *)
(* prior, strategies, df, i, strat, pc, raised, returned and log hold one  *)
(* value per call; a step is one statement of clean_data in one call.      *)
(***************************************************************************)
Calls == {1, 2}

\* The strategies of data_cleaners/strategies.py.
BuiltInTypes ==
    {"RemoveDuplicates", "RenameHeaders", "FilterValidForeignKeys", "RemoveColumns"}

\* The tables the two callers pass in, of MaxRows rows: column a holds 2
\* throughout in the first and 1, 2, 1, ... in the second, so that every
\* strategy has an effect on one of them at least.
ThreadTables ==
    [c \in Calls |->
        Table(Columns,
              [k \in 1..MaxRows |->
                  [idx |-> k - 1,
                   vals |-> <<IF c = 1 THEN 2 ELSE 1 + ((k + 1) % 2), 1>>]])]

\* The values of the options both calls are given: the other table of
\* FilterValidForeignKeys is the table at reference 3 or the very table the
\* first caller passes in (reference 1).
ThreadOptionValues(name) ==
    CASE name = "remove_duplicates_subset_fields" -> {<<"a">>}
      [] name = "remove_duplicates_keep" -> {"last"}
      [] name = "rename_headers_header_map" -> {[a |-> "c"]}
      [] name = "filter_valid_fk_df" -> {1, 3}
      [] name = "filter_valid_pk_field" -> {"a"}
      [] name = "filter_valid_fk_field" -> {"a"}
      [] name = "remove_columns" -> {<<"b">>}
      [] OTHER -> {}

InitThreads ==
    /\ \E f \in PipelineForeignTables :
          /\ heap = <<ThreadTables[1], ThreadTables[2], f>>
          /\ before = <<ThreadTables[1], ThreadTables[2], f>>
          /\ prior = <<ThreadTables[1], ThreadTables[2]>>
    /\ dataframe = <<1, 2>>
    /\ \E l1 \in SeqsUpTo(BuiltInTypes, MaxStrategies),
          l2 \in SeqsUpTo(BuiltInTypes, MaxOtherStrategies) :
          strategies = <<l1, l2>>
    /\ \E o \in OptionsOver(DeclaredOptions(<<"RemoveDuplicates", "RenameHeaders",
                                             "FilterValidForeignKeys",
                                             "RemoveColumns">>),
                           [k \in OptionNames |-> ThreadOptionValues(k)]) :
          /\ DOMAIN o = DeclaredOptions(<<"RemoveDuplicates", "RenameHeaders",
                                          "FilterValidForeignKeys", "RemoveColumns">>)
          /\ options = o
    /\ df = <<0, 0>>
    /\ i = <<0, 0>>
    /\ strat = <<NoStrat, NoStrat>>
    /\ pc = <<"call", "call">>
    /\ raised = <<NoError, NoError>>
    /\ returned = <<0, 0>>
    /\ can_use = <<>>
    /\ args = <<>>
    /\ log = << <<>>, <<>> >>

\* line 100, in call c
ThreadCopy(c) ==
    /\ pc[c] = "call"
    /\ LET r == CopyDataframe(heap, dataframe[c])
       IN /\ heap' = r.heap
          /\ df' = [df EXCEPT ![c] = r.df]
    /\ i' = [i EXCEPT ![c] = 1]
    /\ pc' = [pc EXCEPT ![c] = "loop"]
    /\ UNCHANGED <<args, dataframe, before, prior, strategies, options, strat,
                   raised, returned, can_use, log>>

\* line 102, in call c
ThreadInstantiate(c) ==
    /\ pc[c] = "loop"
    /\ i[c] <= Len(strategies[c])
    /\ strat' = [strat EXCEPT ![c] = NewStrategy(strategies[c][i[c]], df[c], options)]
    /\ log' = [log EXCEPT ![c] = Append(@, <<"init", i[c], "none">>)]
    /\ pc' = [pc EXCEPT ![c] = "validate"]
    /\ UNCHANGED <<args, heap, dataframe, before, prior, strategies, options,
                   df, i, raised, returned, can_use>>

\* line 103, in call c
ThreadValidate(c) ==
    /\ pc[c] = "validate"
    /\ LET e == validate_options(strat[c])
       IN /\ log' = [log EXCEPT ![c] = Append(@, <<"validate", i[c], e.type>>)]
          /\ pc' = [pc EXCEPT ![c] = AfterValidate(e)]
          /\ raised' = IF pc'[c] = "raised" THEN [raised EXCEPT ![c] = e] ELSE raised
    /\ UNCHANGED <<args, heap, dataframe, before, prior, strategies, options,
                   df, i, strat, returned, can_use>>

\* line 104, in call c
ThreadClean(c) ==
    /\ pc[c] = "clean"
    /\ LET r == clean(strat[c], heap)
       IN /\ prior' = [prior EXCEPT ![c] = heap[strat[c].dataframe]]
          /\ heap' = r.heap
          /\ strat' = [strat EXCEPT ![c].dataframe = r.dataframe]
          /\ log' = [log EXCEPT ![c] = Append(@, <<"clean", i[c], r.raised.type>>)]
          /\ pc' = [pc EXCEPT ![c] = AfterClean(r.raised)]
          /\ raised' = IF pc'[c] = "raised" THEN [raised EXCEPT ![c] = r.raised]
                                            ELSE raised
    /\ UNCHANGED <<args, dataframe, before, strategies, options, df, i,
                   returned, can_use>>

\* line 105, in call c
ThreadAssign(c) ==
    /\ pc[c] = "assign"
    /\ df' = [df EXCEPT ![c] = NextDataframe(strat[c], df[c])]
    /\ i' = [i EXCEPT ![c] = @ + 1]
    /\ pc' = [pc EXCEPT ![c] = "loop"]
    /\ UNCHANGED <<args, heap, dataframe, before, prior, strategies, options,
                   strat, raised, returned, can_use, log>>

\* line 106, in call c
ThreadReturn(c) ==
    /\ pc[c] = "loop"
    /\ i[c] > Len(strategies[c])
    /\ returned' = [returned EXCEPT ![c] = df[c]]
    /\ pc' = [pc EXCEPT ![c] = "returned"]
    /\ UNCHANGED <<args, heap, dataframe, before, prior, strategies, options,
                   df, i, strat, raised, can_use, log>>

NextThreads ==
    \E c \in Calls :
        \/ ThreadCopy(c)
        \/ ThreadInstantiate(c)
        \/ ThreadValidate(c)
        \/ ThreadClean(c)
        \/ ThreadAssign(c)
        \/ ThreadReturn(c)

SpecThreads == InitThreads /\ [][NextThreads]_vars

(***************************************************************************)
(* Properties of two calls at the same time (specification SpecThreads).   *)
(***************************************************************************)
\* What call c returns or raises when it runs alone on the tables as they
\* were when the calls started.
Alone(c) == Composed(before[c], strategies[c], options, before)

\* The outcome of every call that has ended is the outcome it has alone,
\* and the tables the callers passed in, the other table of the options
\* included, are as they were.
IndependentOutcomes ==
    /\ SubSeq(heap, 1, 3) = before
    /\ \A c \in Calls :
          /\ pc[c] = "returned" =>
                /\ Alone(c).raised = NoError
                /\ heap[returned[c]] = Alone(c).table
          /\ pc[c] = "raised" => raised[c] = Alone(c).raised

\* A step of one call leaves the locals, the instance and the working table
\* of the other call as they are.
OwnWorkingTable ==
    \A c \in Calls :
        pc'[c] = pc[c] =>
            /\ df'[c] = df[c]
            /\ strat'[c] = strat[c]
            /\ df[c] # 0 => heap'[df[c]] = heap[df[c]]
            /\ strat[c] # NoStrat => heap'[strat[c].dataframe] = heap[strat[c].dataframe]

\* C13: two calls of clean_data on two different tables, with built-in
\* strategies and the same option values (the same other table included),
\* are independent under every interleaving of their steps: each returns or
\* raises what it does alone, no step of one call changes the working
\* table of the other, and the callers' tables and the shared option values
\* stay as they were.
C13_Independence == [](IndependentOutcomes) /\ [][OwnWorkingTable]_vars

\* C13 witness: both calls filtered by the table the first caller passed
\* in, the second call copied its table before the first did, both have
\* returned, and the second returned fewer rows than it was given.
C13_Witness ==
    /\ pc = <<"returned", "returned">>
    /\ options["filter_valid_fk_df"] = 1
    /\ strategies[2] = <<"FilterValidForeignKeys">>
    /\ "FilterValidForeignKeys" \in Range(strategies[1])
    /\ df[2] < df[1]
    /\ Len(heap[returned[2]].rows) < Len(before[2].rows)

(***************************************************************************)
(* The step protocol of clean_data (specification Spec).                   *)
(***************************************************************************)
\* The steps of one loop iteration, in the order of the statements.
Steps == <<"init", "validate", "clean">>

\* C14: clean_data processes the list in order and one strategy at a time:
\* the log consists of the steps creation, validate_options, clean of
\* position 1, then those of position 2, and so on, each once, and a step
\* is followed by another only when it raised nothing; so clean follows the
\* successful validate_options of its instance and the instance of the
\* next position is created after clean has returned.  The instance is of
\* the type at its position, holds the current working table (the copy for
\* position 1, the table the previous instance left otherwise) and every
\* option of the call, those meant for other strategies included.
C14_StepProtocol ==
    /\ \A k \in DOMAIN log :
          /\ log[k][1] = Steps[((k - 1) % 3) + 1]
          /\ log[k][2] = ((k - 1) \div 3) + 1
          /\ log[k][2] \in DOMAIN strategies
          /\ k < Len(log) => log[k][3] = "none"
    /\ pc \in {"validate", "clean", "assign"} =>
          /\ log[Len(log)][2] = i
          /\ log[Len(log)][1] = CASE pc = "validate" -> "init"
                                  [] pc = "clean" -> "validate"
                                  [] pc = "assign" -> "clean"
    /\ pc \in {"validate", "clean"} =>
          /\ strat.cls = strategies[i]
          /\ strat.dataframe = df
          /\ \A k \in DOMAIN options :
                k \in DOMAIN strat.attrs /\ strat.attrs[k] = options[k]
    /\ pc = "loop" =>
          /\ Len(log) = 3 * (i - 1)
          /\ IF i = 1 THEN df = Len(heap) /\ df # dataframe
                      ELSE df = strat.dataframe
    /\ pc = "returned" => Len(log) = 3 * Len(strategies)

\* C14 witness: the second strategy of a list is about to clean, after the
\* first has cleaned; its instance holds the option meant for the first.
C14_Witness ==
    /\ pc = "clean"
    /\ i = 2
    /\ strategies = <<"RenameHeaders", "RemoveColumns">>
    /\ log = <<<<"init", 1, "none">>, <<"validate", 1, "none">>,
               <<"clean", 1, "none">>, <<"init", 2, "none">>,
               <<"validate", 2, "none">>>>
    /\ "rename_headers_header_map" \in DOMAIN strat.attrs
    /\ "remove_columns" \in DOMAIN strat.attrs

(***************************************************************************)
(* The required options of a strategy type (specification Spec).           *)
(***************************************************************************)
\* The required options declared by the type at position n that neither
\* the options of the call nor an attribute every instance has supply.
NotSupplied(n) ==
    {name \in Range(ClassRequiredOptions(strategies[n])) :
        name \notin (DOMAIN options) \cup ClassAttributes
                     \cup {"dataframe", "dataset_has_been_reversed"}}

C15_WithoutOverride ==
    "required_options" \notin DOMAIN options =>
        \A n \in Executed("clean") : NotSupplied(n) = {}

(***************************************************************************)
(* Properties of FirstXRowsStrategy (specification Spec).                  *)
(***************************************************************************)
\* The first n rows of a sequence of rows, all of them when there are fewer.
FirstRows(rows, n) == SubSeq(rows, 1, IF n < Len(rows) THEN n ELSE Len(rows))

\* C16: FirstXRowsStrategy.clean, given x_top_rows = x, leaves the first
\* min(x, number of rows) rows of the table, in their order, with the same
\* columns; and clean_data with [ReverseStrategy, FirstXRowsStrategy]
\* returns the first x rows of the reversed table.  (Calls whose options
\* name required_options are left out of this statement.)
C16_FirstXRows ==
    (/\ "x_top_rows" \in DOMAIN options
     /\ "required_options" \notin DOMAIN options) =>
        LET x == options["x_top_rows"]
        IN /\ LastCleaned("FirstXRowsStrategy") =>
                 /\ log[Len(log)][3] = "none"
                 /\ Current.cols = prior.cols
                 /\ Current.rows = FirstRows(prior.rows, x)
           /\ (pc = "returned"
               /\ strategies = <<"ReverseStrategy", "FirstXRowsStrategy">>) =>
                 /\ heap[returned].cols = before.cols
                 /\ heap[returned].rows = FirstRows(Reverse(before.rows), x)

\* What the strategy does whatever x_top_rows is: it leaves the first two
\* rows, or the only one, or none; this holds.
C16_FirstTwoRows ==
    LastCleaned("FirstXRowsStrategy") =>
        /\ Current.cols = prior.cols
        /\ Current.rows = FirstRows(prior.rows, 2)

=============================================================================
